---------------------------- MODULE Spec2Model ----------------------------
(***************************************************************************)
(* A model of funfolding/solution/likelihood.py: the Tikhonov operator     *)
(* builder create_C_thikonov, the LLH lifecycle base class, the vectorised *)
(* StandardLLH objective and the loop-based LLHThikonovForLoops reference. *)
(*                                                                         *)
(* Numbers.  The inputs (response matrices, observed counts, tau, f) are   *)
(* integers.  Quotients are exact rationals <<num, den>> (den > 0, lowest  *)
(* terms), and a value that contains logarithms is kept in the exact form  *)
(*     rat + SUM_k logs[k] * log(k)                                        *)
(* so that two objective values are equal in the model exactly when the    *)
(* two real numbers are built from the same terms.  Python indices start   *)
(* at 0, the model's sequences at 1.                                       *)
(***************************************************************************)
EXTENDS Integers, Sequences, FiniteSets, TLC

(* Bounds of the explored inputs. *)
MaxF == 1
MaxDim == 5
MaxX == 1

VARIABLES self, result, ref, ref_result, n_dims, C_op, x

vars == <<self, result, ref, ref_result, n_dims, C_op, x>>
llh_vars == <<self, result, ref, ref_result>>
op_vars == <<n_dims, C_op, x>>

---------------------------------------------------------------------------
(* Integer vectors and matrices (a matrix is a sequence of rows). *)

RECURSIVE SumTo(_, _)
SumTo(F, n) == IF n = 0 THEN 0 ELSE F[n] + SumTo(F, n - 1)

Sum(v) == SumTo(v, Len(v))

Rows(M) == Len(M)
Cols(M) == IF Len(M) = 0 THEN 0 ELSE Len(M[1])

Transpose(M) == [j \in 1..Cols(M) |-> [i \in 1..Rows(M) |-> M[i][j]]]

Dot(u, v) == Sum([k \in 1..Len(u) |-> u[k] * v[k]])

MatVec(M, v) == [i \in 1..Rows(M) |-> Dot(M[i], v)]

MatMul(M, N) ==
    [i \in 1..Rows(M) |->
        [j \in 1..Cols(N) |-> Sum([k \in 1..Cols(M) |-> M[i][k] * N[k][j]])]]

Quad(M, v) == Dot(v, MatVec(M, v))

Vectors(n, S) == [1..n -> S]

---------------------------------------------------------------------------
(* create_C_thikonov *)

(* The matrix the function fills before the final product: row 0 is        *)
(* (-1, 1, 0, ...), an interior row has -2 on the diagonal and 1 on both   *)
(* neighbours, the last row has -1 on the diagonal and 1 before it.        *)
SecondDerivativeMatrix(n) ==
    [i \in 1..n |-> [j \in 1..n |->
        IF i = 1 THEN (IF j = 1 THEN -1 ELSE IF j = 2 THEN 1 ELSE 0)
        ELSE IF i = n THEN (IF j = n THEN -1 ELSE IF j = n - 1 THEN 1 ELSE 0)
        ELSE (IF j = i THEN -2 ELSE IF j = i - 1 \/ j = i + 1 THEN 1 ELSE 0)]]

(* Mutations of the builder: the filled matrix returned without the        *)
(* product, and the element-wise square in place of the matrix product.    *)
create_C_thikonov_no_product(n_dims_arg) == SecondDerivativeMatrix(n_dims_arg)

create_C_thikonov_elementwise(n_dims_arg) ==
    LET D == SecondDerivativeMatrix(n_dims_arg)
    IN  [i \in 1..n_dims_arg |-> [j \in 1..n_dims_arg |-> D[i][j] * D[i][j]]]

create_C_thikonov(n_dims_arg) ==
    LET D == SecondDerivativeMatrix(n_dims_arg)
    IN  MatMul(Transpose(D), D)

---------------------------------------------------------------------------
(* Exact rationals <<num, den>>, den > 0, in lowest terms. *)

Abs(a) == IF a < 0 THEN 0 - a ELSE a

RECURSIVE GCD(_, _)
GCD(a, b) == IF b = 0 THEN a ELSE GCD(b, a % b)

QNorm(n, d) ==
    LET g == GCD(Abs(n), Abs(d))
        s == IF d < 0 THEN -1 ELSE 1
    IN  <<(s * n) \div g, (s * d) \div g>>

Q(n) == <<n, 1>>
QZero == <<0, 1>>
QHalf == <<1, 2>>
QAdd(a, b) == QNorm(a[1] * b[2] + b[1] * a[2], a[2] * b[2])
QNeg(a) == <<0 - a[1], a[2]>>
QMul(a, b) == QNorm(a[1] * b[1], a[2] * b[2])
QDiv(a, b) == QNorm(a[1] * b[2], a[2] * b[1])
QSign(a) == IF a[1] > 0 THEN 1 ELSE IF a[1] < 0 THEN -1 ELSE 0

---------------------------------------------------------------------------
(* Floating-point values as the extended reals numpy computes with: a      *)
(* finite value rat + SUM_k logs[k] * log(k), or inf, -inf, nan.  The      *)
(* rounding of finite values is not modelled.                              *)

NoLogs == [k \in {} |-> QZero]

Fin(q) == [kind |-> "fin", rat |-> q, logs |-> NoLogs]
FinInt(n) == Fin(Q(n))
PosInf == [kind |-> "inf", rat |-> QZero, logs |-> NoLogs]
NegInf == [kind |-> "-inf", rat |-> QZero, logs |-> NoLogs]
NaN == [kind |-> "nan", rat |-> QZero, logs |-> NoLogs]

LogsAdd(l1, l2) ==
    LET c(k) == QAdd(IF k \in DOMAIN l1 THEN l1[k] ELSE QZero,
                     IF k \in DOMAIN l2 THEN l2[k] ELSE QZero)
    IN  [k \in {k \in DOMAIN l1 \cup DOMAIN l2 : c(k) # QZero} |-> c(k)]

LogsScale(l, q) ==
    [k \in {k \in DOMAIN l : QMul(l[k], q) # QZero} |-> QMul(l[k], q)]

(* a + b *)
SAdd(a, b) ==
    IF a.kind = "nan" \/ b.kind = "nan" THEN NaN
    ELSE IF a.kind = "fin" /\ b.kind = "fin"
         THEN [kind |-> "fin", rat |-> QAdd(a.rat, b.rat),
               logs |-> LogsAdd(a.logs, b.logs)]
    ELSE IF a.kind = "fin" THEN b
    ELSE IF b.kind = "fin" THEN a
    ELSE IF a.kind = b.kind THEN a
    ELSE NaN

(* -a *)
SNeg(a) ==
    IF a.kind = "nan" THEN NaN
    ELSE IF a.kind = "inf" THEN NegInf
    ELSE IF a.kind = "-inf" THEN PosInf
    ELSE [kind |-> "fin", rat |-> QNeg(a.rat),
          logs |-> LogsScale(a.logs, Q(-1))]

SSub(a, b) == SAdd(a, SNeg(b))

(* The sign of a value without logarithm terms (the only values the code   *)
(* multiplies with or divides by an infinity).                             *)
SSign(a) ==
    IF a.kind = "inf" THEN 1
    ELSE IF a.kind = "-inf" THEN -1
    ELSE QSign(a.rat)

(* a * b, where at most one of the two holds logarithm terms *)
SMul(a, b) ==
    IF a.kind = "nan" \/ b.kind = "nan" THEN NaN
    ELSE IF a.kind = "fin" /\ b.kind = "fin"
         THEN IF b.logs = NoLogs
              THEN [kind |-> "fin", rat |-> QMul(a.rat, b.rat),
                    logs |-> LogsScale(a.logs, b.rat)]
              ELSE [kind |-> "fin", rat |-> QMul(a.rat, b.rat),
                    logs |-> LogsScale(b.logs, a.rat)]
    ELSE IF SSign(a) * SSign(b) > 0 THEN PosInf
    ELSE IF SSign(a) * SSign(b) < 0 THEN NegInf
    ELSE NaN

(* a / b for finite a and b without logarithm terms: numpy's true division, *)
(* which yields inf, -inf or nan on a zero divisor instead of raising.      *)
SDiv(a, b) ==
    IF b.rat # QZero THEN Fin(QDiv(a.rat, b.rat))
    ELSE IF QSign(a.rat) > 0 THEN PosInf
    ELSE IF QSign(a.rat) < 0 THEN NegInf
    ELSE NaN

(* np.log of a finite value without logarithm terms *)
SLog(a) ==
    IF QSign(a.rat) < 0 THEN NaN
    ELSE IF QSign(a.rat) = 0 THEN NegInf
    ELSE IF a.rat = Q(1) THEN Fin(QZero)
    ELSE [kind |-> "fin", rat |-> QZero, logs |-> [k \in {a.rat} |-> Q(1)]]

RECURSIVE SSumTo(_, _)
SSumTo(F, n) == IF n = 0 THEN FinInt(0) ELSE SAdd(SSumTo(F, n - 1), F[n])

(* np.sum of a vector of values *)
SSum(v) == SSumTo(v, Len(v))

SVec(v) == [k \in 1..Len(v) |-> FinInt(v[k])]
SMat(M) == [i \in 1..Rows(M) |-> SVec(M[i])]

(* np.dot of two matrices of values *)
SMatMul(M, N) ==
    [i \in 1..Rows(M) |->
        [j \in 1..Cols(N) |->
            SSum([k \in 1..Cols(M) |-> SMul(M[i][k], N[k][j])])]]

(* np.diag of a vector of values *)
SDiag(v) ==
    [i \in 1..Len(v) |-> [j \in 1..Len(v) |-> IF i = j THEN v[i] ELSE FinInt(0)]]

---------------------------------------------------------------------------
(* Python objects and call outcomes.  An object is a function from the     *)
(* names of the attributes it has to their values; reading an attribute it *)
(* does not have raises AttributeError.  A call ends in a returned value   *)
(* or a raised exception.                                                  *)

Return(v) == [kind |-> "return", val |-> v]
Raise(e) == [kind |-> "raise", val |-> e]
None == "None"

HasAttr(obj, name) == name \in DOMAIN obj

---------------------------------------------------------------------------
(* The forward model (funfolding.model): a response matrix A and           *)
(* evaluate(f) -> (g_est, f, f_reg).  A LinearModel multiplies by A; the   *)
(* other Model stands for a non-linear one: it folds the squares of f and  *)
(* subtracts a constant background of 1 per observed bin.                  *)

IsModel(model) == model.kind \in {"LinearModel", "Model"}
IsLinearModel(model) == model.kind = "LinearModel"

Model_evaluate(model, f) ==
    IF Len(f) # Cols(model.A) THEN Raise("ValueError")
    ELSE IF IsLinearModel(model)
         THEN Return(<<MatVec(model.A, f), f, f>>)
         ELSE Return(<<[i \in 1..Rows(model.A) |->
                            Dot(model.A[i], [k \in 1..Len(f) |-> f[k] * f[k]]) - 1],
                        f, f>>)

---------------------------------------------------------------------------
(* class LLH *)

LLH___init__ ==
    [status |-> -1, gradient_defined |-> FALSE, hesse_matrix_defined |-> FALSE]

LLH_initialize(s) == [s EXCEPT !.status = 0]

LLH_evaluate_llh(s) ==
    IF s.status < 0 THEN Raise("RuntimeError") ELSE Return(None)

LLH_evaluate_gradient(s) ==
    IF s.gradient_defined
    THEN IF s.status < 0 THEN Raise("RuntimeError") ELSE Return(None)
    ELSE Raise("NotImplementedError")

LLH_evaluate_hesse_matrix(s) ==
    IF s.hesse_matrix_defined
    THEN IF s.status < 0 THEN Raise("RuntimeError") ELSE Return(None)
    ELSE Raise("NotImplementedError")

---------------------------------------------------------------------------
(* class StandardLLH(LLH).  Every method yields the object after the call  *)
(* and the call's outcome.                                                 *)

StandardLLH_initialize(s, vec_g, model, tau, C, N_prior, neg_llh) ==
    LET s1 == LLH_initialize(s)
        s2 == [model |-> model, n_dims_f |-> model.dim_f, vec_g |-> vec_g,
               N |-> Sum(vec_g), C |-> C, tau |-> tau,
               factor |-> IF neg_llh THEN 1 ELSE -1,
               neg_llh |-> neg_llh, N_prior |-> N_prior] @@ s1
    IN  IF ~IsModel(model)
        THEN [self |-> s1, out |-> Raise("ValueError")]
        ELSE IF IsLinearModel(model)
             THEN [self |-> [s2 EXCEPT !.gradient_defined = TRUE,
                                       !.hesse_matrix_defined = TRUE],
                   out |-> Return(None)]
             ELSE [self |-> s2, out |-> Return(None)]

AnyNegative(v) == \E k \in 1..Len(v) : v[k] < 0

(* lines 98-104, reached with g_est, f, f_reg from the model *)
StandardLLH_llh_value(s, g_est, f, f_reg) ==
    LET poisson_part ==
            SSum([i \in 1..Len(g_est) |->
                SSub(FinInt(g_est[i]),
                     SMul(FinInt(s.g[i]), SLog(FinInt(g_est[i]))))])
        curvature ==
            SMul(Fin(QMul(QHalf, Q(s.tau))), FinInt(Dot(MatVec(Transpose(s.C), f_reg), f_reg)))
        sum_f == Sum(f)
        regularization_part ==
            IF s.N_prior
            THEN SAdd(curvature,
                      SSub(FinInt(sum_f), SMul(FinInt(s.N), SLog(FinInt(sum_f)))))
            ELSE curvature
    IN  SMul(SAdd(poisson_part, regularization_part), FinInt(s.factor))

(* A mutation: the two infinities of the infeasible branch exchanged. *)
StandardLLH_evaluate_llh_swapped_inf(s, f) ==
    LET base == LLH_evaluate_llh(s)
        ev == Model_evaluate(s.model, f)
    IN  IF base.kind = "raise" THEN [self |-> s, out |-> base]
        ELSE IF ~HasAttr(s, "model") THEN [self |-> s, out |-> Raise("AttributeError")]
        ELSE IF ev.kind = "raise" THEN [self |-> s, out |-> ev]
        ELSE IF AnyNegative(ev.val[1]) \/ AnyNegative(ev.val[2])
             THEN [self |-> s, out |-> IF s.neg_llh THEN Return(NegInf) ELSE Return(PosInf)]
        ELSE IF ~HasAttr(s, "g") THEN [self |-> s, out |-> Raise("AttributeError")]
        ELSE [self |-> s,
              out |-> Return(StandardLLH_llh_value(s, ev.val[1], ev.val[2], ev.val[3]))]

(* A mutation: the call remembers the observed counts it used as self.g. *)
StandardLLH_evaluate_llh_caching(s, f) ==
    LET base == LLH_evaluate_llh(s)
        ev == Model_evaluate(s.model, f)
        cached == IF HasAttr(s, "vec_g") THEN [g |-> s.vec_g] @@ s ELSE s
    IN  IF base.kind = "raise" THEN [self |-> s, out |-> base]
        ELSE IF ~HasAttr(s, "model") THEN [self |-> s, out |-> Raise("AttributeError")]
        ELSE IF ev.kind = "raise" THEN [self |-> s, out |-> ev]
        ELSE IF AnyNegative(ev.val[1]) \/ AnyNegative(ev.val[2])
             THEN [self |-> cached,
                   out |-> IF s.neg_llh THEN Return(PosInf) ELSE Return(NegInf)]
        ELSE [self |-> cached,
              out |-> Return(StandardLLH_llh_value(cached, ev.val[1], ev.val[2], ev.val[3]))]

StandardLLH_evaluate_llh(s, f) ==
    LET base == LLH_evaluate_llh(s)
        ev == Model_evaluate(s.model, f)
    IN  IF base.kind = "raise" THEN [self |-> s, out |-> base]
        ELSE IF ~HasAttr(s, "model") THEN [self |-> s, out |-> Raise("AttributeError")]
        ELSE IF ev.kind = "raise" THEN [self |-> s, out |-> ev]
        ELSE IF AnyNegative(ev.val[1]) \/ AnyNegative(ev.val[2])
             THEN [self |-> s, out |-> IF s.neg_llh THEN Return(PosInf) ELSE Return(NegInf)]
        ELSE IF ~HasAttr(s, "g") THEN [self |-> s, out |-> Raise("AttributeError")]
        ELSE [self |-> s,
              out |-> Return(StandardLLH_llh_value(s, ev.val[1], ev.val[2], ev.val[3]))]

(* lines 109-114, reached with g_est and f_reg from the model *)
StandardLLH_gradient_value(s, g_est, f_reg) ==
    LET A == s.model.A
        m == Rows(A)
        n == Cols(A)
        inv_g_est == [i \in 1..m |-> SDiv(FinInt(1), FinInt(g_est[i]))]
        part_b == [k \in 1..n |->
            SSum([i \in 1..m |->
                SMul(SMul(FinInt(A[i][k]), FinInt(s.g[i])), inv_g_est[i])])]
        h_unreg == [k \in 1..n |->
            SSub(FinInt(Sum([i \in 1..m |-> A[i][k]])), part_b[k])]
        Cf == MatVec(s.C, f_reg)
        regularization_part == [k \in 1..n |-> FinInt(1 * s.tau * Cf[k])]
    IN  [k \in 1..n |->
            SAdd(h_unreg[k], SMul(regularization_part[k], FinInt(s.factor)))]

StandardLLH_evaluate_gradient(s, f) ==
    LET base == LLH_evaluate_gradient(s)
        ev == Model_evaluate(s.model, f)
    IN  IF base.kind = "raise" THEN [self |-> s, out |-> base]
        ELSE IF ~HasAttr(s, "model") THEN [self |-> s, out |-> Raise("AttributeError")]
        ELSE IF ev.kind = "raise" THEN [self |-> s, out |-> ev]
        ELSE IF ~HasAttr(s.model, "A") \/ ~HasAttr(s, "g")
             THEN [self |-> s, out |-> Raise("AttributeError")]
        ELSE [self |-> s,
              out |-> Return(StandardLLH_gradient_value(s, ev.val[1], ev.val[3]))]

(* lines 119-122, reached with g_est from the model *)
StandardLLH_hesse_value(s, g_est) ==
    LET A == s.model.A
        n == Cols(A)
        weights == [i \in 1..Rows(A) |->
            SDiv(FinInt(s.g[i]), FinInt(g_est[i] * g_est[i]))]
        H_unreg == SMatMul(SMatMul(SMat(Transpose(A)), SDiag(weights)), SMat(A))
    IN  [k \in 1..n |-> [l \in 1..n |->
            SMul(SAdd(FinInt(s.tau * s.C[k][l]), H_unreg[k][l]), FinInt(s.factor))]]

StandardLLH_evaluate_hesse_matrix(s, f) ==
    LET base == LLH_evaluate_hesse_matrix(s)
        ev == Model_evaluate(s.model, f)
    IN  IF base.kind = "raise" THEN [self |-> s, out |-> base]
        ELSE IF ~HasAttr(s, "model") THEN [self |-> s, out |-> Raise("AttributeError")]
        ELSE IF ev.kind = "raise" THEN [self |-> s, out |-> ev]
        ELSE IF ~HasAttr(s.model, "A") \/ ~HasAttr(s, "g")
             THEN [self |-> s, out |-> Raise("AttributeError")]
        ELSE [self |-> s, out |-> Return(StandardLLH_hesse_value(s, ev.val[1]))]

---------------------------------------------------------------------------
(* class LLHThikonovForLoops *)

NoObject == [a \in {} |-> 0]

LLHThikonovForLoops___init__(g, linear_model, tau) ==
    IF ~IsLinearModel(linear_model)
    THEN [self |-> NoObject, out |-> Raise("ValueError")]
    ELSE [self |-> [linear_model |-> linear_model,
                    n_dims_f |-> Cols(linear_model.A),
                    g |-> g,
                    C |-> create_C_thikonov(Cols(linear_model.A)),
                    tau |-> tau,
                    status |-> 0],
          out |-> Return(None)]

(* The inner loop "g_est += A[i, j] * f[j]" over j in range(n). *)
ForLoops_g_est(r, f, i) ==
    Sum([j \in 1..Cols(r.linear_model.A) |-> r.linear_model.A[i][j] * f[j]])

LLHThikonovForLoops_evaluate_llh(r, f) ==
    LET A == r.linear_model.A
        m == Rows(A)
        n == Cols(A)
        poisson_part ==
            SSum([i \in 1..m |->
                SSub(FinInt(ForLoops_g_est(r, f, i)),
                     SMul(FinInt(r.g[i]), SLog(FinInt(ForLoops_g_est(r, f, i)))))])
        reg_sum == Sum([i \in 1..n |-> Sum([j \in 1..n |-> r.C[i][j] * f[i] * f[j]])])
        reg_part == SMul(FinInt(reg_sum), Fin(QMul(QHalf, Q(r.tau))))
    IN  IF Len(f) < n THEN Raise("IndexError")
        ELSE Return(SSub(reg_part, poisson_part))

LLHThikonovForLoops_evaluate_gradient(r, f) ==
    LET A == r.linear_model.A
        m == Rows(A)
        n == Cols(A)
        poisson_part(k) ==
            SSum([i \in 1..m |->
                SSub(FinInt(A[i][k]),
                     SDiv(FinInt(r.g[i] * A[i][k]), FinInt(ForLoops_g_est(r, f, i))))])
        c(k) == Sum([i \in 1..n |-> r.C[i][k] * f[i]])
        reg_part(k) == FinInt(r.tau * c(k))
    IN  IF Len(f) < n THEN Raise("IndexError")
        ELSE Return([k \in 1..n |-> SSub(reg_part(k), poisson_part(k))])

LLHThikonovForLoops_evaluate_hesse_matrix(r, f) ==
    LET A == r.linear_model.A
        m == Rows(A)
        n == Cols(A)
        poisson_part(k, l) ==
            SSum([i \in 1..m |->
                SDiv(FinInt(r.g[i] * A[i][k] * A[i][l]),
                     FinInt(ForLoops_g_est(r, f, i) * ForLoops_g_est(r, f, i)))])
    IN  IF Len(f) < n THEN Raise("IndexError")
        ELSE Return([k \in 1..n |-> [l \in 1..n |->
                SAdd(poisson_part(k, l), FinInt(r.tau * r.C[k][l]))]])

---------------------------------------------------------------------------
(* The inputs the calls are explored with. *)

A_4x3 == << <<1, 0, 0>>, <<1, 1, 0>>, <<0, 1, 1>>, <<0, 0, 1>> >>
A_identity_4 == << <<1, 0, 0, 0>>, <<0, 1, 0, 0>>, <<0, 0, 1, 0>>, <<0, 0, 0, 1>> >>

MakeModel(kind, A) == [kind |-> kind, A |-> A, dim_f |-> Cols(A)]

LinearModels == {MakeModel("LinearModel", A_4x3), MakeModel("LinearModel", A_identity_4)}
NonLinearModels == {MakeModel("Model", A_4x3)}
Models == LinearModels \cup NonLinearModels
(* An argument that is no Model at all (a bare matrix passed as the model). *)
NotAModel == MakeModel("ndarray", A_4x3)

ObservedCounts == {<<10, 12, 9, 11>>, <<2, 1, 0, 3>>}
TauValues == {0, 1}

FVals == -1..MaxF
FCandidates == Vectors(3, FVals) \cup {<<10, 12, 9, 11>>, <<10, -12, 9, 11>>}

(* The arguments of initialize: C is built for the model's number of true *)
(* bins, as the caller is required to.                                     *)
InitializeArguments ==
    {[vec_g |-> g, model |-> mo, tau |-> t, C |-> create_C_thikonov(mo.dim_f),
      N_prior |-> np, neg_llh |-> ng] :
        g \in ObservedCounts, mo \in Models \cup {NotAModel}, t \in TauValues,
        np \in BOOLEAN, ng \in BOOLEAN}

(* The arguments the comparison with the reference uses: a linear model    *)
(* and the default flags.                                                  *)
CrossCheckArguments ==
    {a \in InitializeArguments :
        IsLinearModel(a.model) /\ ~a.N_prior /\ a.neg_llh}

EvalOps == {"evaluate_llh", "evaluate_gradient", "evaluate_hesse_matrix"}

NoCall == [obj |-> "none", op |-> "none", f |-> <<>>, out |-> Return(None)]

---------------------------------------------------------------------------
(* The calls on a StandardLLH instance. *)

Initialize(vec_g, model, tau, C, N_prior, neg_llh) ==
    LET r == StandardLLH_initialize(self, vec_g, model, tau, C, N_prior, neg_llh)
    IN  /\ self' = r.self
        /\ result' = [obj |-> "StandardLLH", op |-> "initialize", f |-> <<>>, out |-> r.out]
        /\ ref_result' = NoCall
        /\ UNCHANGED <<ref, op_vars>>

StandardLLH_call(s, op, f) ==
    IF op = "evaluate_llh" THEN StandardLLH_evaluate_llh(s, f)
    ELSE IF op = "evaluate_gradient" THEN StandardLLH_evaluate_gradient(s, f)
    ELSE StandardLLH_evaluate_hesse_matrix(s, f)

EvaluateLLH(f) ==
    LET r == StandardLLH_evaluate_llh(self, f)
    IN  /\ self' = r.self
        /\ result' = [obj |-> "StandardLLH", op |-> "evaluate_llh", f |-> f, out |-> r.out]
        /\ ref_result' = NoCall
        /\ UNCHANGED <<ref, op_vars>>

EvaluateGradient(f) ==
    LET r == StandardLLH_evaluate_gradient(self, f)
    IN  /\ self' = r.self
        /\ result' = [obj |-> "StandardLLH", op |-> "evaluate_gradient", f |-> f, out |-> r.out]
        /\ ref_result' = NoCall
        /\ UNCHANGED <<ref, op_vars>>

EvaluateHesseMatrix(f) ==
    LET r == StandardLLH_evaluate_hesse_matrix(self, f)
    IN  /\ self' = r.self
        /\ result' = [obj |-> "StandardLLH", op |-> "evaluate_hesse_matrix", f |-> f, out |-> r.out]
        /\ ref_result' = NoCall
        /\ UNCHANGED <<ref, op_vars>>

(* The calls on the reference: its construction (a constructor that raises *)
(* leaves the instance built before in place), and its evaluation at the   *)
(* point the vectorised objective was last evaluated at.                   *)
NewForLoops(g, linear_model, tau) ==
    LET r == LLHThikonovForLoops___init__(g, linear_model, tau)
    IN  /\ ref' = IF r.out.kind = "raise" THEN ref ELSE r.self
        /\ ref_result' = [obj |-> "LLHThikonovForLoops", op |-> "__init__", f |-> <<>>, out |-> r.out]
        /\ UNCHANGED <<self, result, op_vars>>

ForLoops_call(r, op, f) ==
    IF op = "evaluate_llh" THEN LLHThikonovForLoops_evaluate_llh(r, f)
    ELSE IF op = "evaluate_gradient" THEN LLHThikonovForLoops_evaluate_gradient(r, f)
    ELSE LLHThikonovForLoops_evaluate_hesse_matrix(r, f)

ForLoopsEvaluate ==
    /\ ref # NoObject
    /\ result.op \in EvalOps
    /\ ref_result' = [obj |-> "LLHThikonovForLoops", op |-> result.op, f |-> result.f,
                      out |-> ForLoops_call(ref, result.op, result.f)]
    /\ UNCHANGED <<self, result, ref, op_vars>>

---------------------------------------------------------------------------
(* The operator explored on its own: a dimension, the matrix built for it, *)
(* and a vector it is applied to.                                          *)

Dims == 3..MaxDim
XVals == (0 - MaxX)..MaxX

ZeroVector(n) == [k \in 1..n |-> 0]

BuildC(n) ==
    /\ n_dims' = n
    /\ C_op' = create_C_thikonov(n)
    /\ x' = ZeroVector(n)
    /\ UNCHANGED llh_vars

SetX(k, v) ==
    /\ k \in 1..n_dims
    /\ x' = [x EXCEPT ![k] = v]
    /\ UNCHANGED <<n_dims, C_op, llh_vars>>

---------------------------------------------------------------------------
(* Specifications. *)

InitObjects ==
    /\ self = LLH___init__
    /\ result = NoCall
    /\ ref = NoObject
    /\ ref_result = NoCall

InitOperator ==
    /\ n_dims = 3
    /\ C_op = create_C_thikonov(3)
    /\ x = ZeroVector(3)

(* The lifecycle of one StandardLLH instance under every call. *)
Init == InitObjects /\ InitOperator

Next ==
    \/ \E a \in InitializeArguments :
            Initialize(a.vec_g, a.model, a.tau, a.C, a.N_prior, a.neg_llh)
    \/ \E f \in FCandidates : EvaluateLLH(f)
    \/ \E f \in FCandidates : EvaluateGradient(f)
    \/ \E f \in FCandidates : EvaluateHesseMatrix(f)

Spec == Init /\ [][Next]_vars

(* The vectorised objective (default flags) beside the reference. *)
NextCross ==
    \/ \E a \in CrossCheckArguments :
            Initialize(a.vec_g, a.model, a.tau, a.C, a.N_prior, a.neg_llh)
    \/ \E g \in ObservedCounts, model \in Models, tau \in TauValues :
            NewForLoops(g, model, tau)
    \/ \E f \in FCandidates : EvaluateLLH(f)
    \/ \E f \in FCandidates : EvaluateGradient(f)
    \/ \E f \in FCandidates : EvaluateHesseMatrix(f)
    \/ ForLoopsEvaluate

SpecCross == Init /\ [][NextCross]_vars

(* The regularization operator on its own. *)
NextOperator ==
    \/ \E n \in Dims : BuildC(n)
    \/ \E k \in 1..MaxDim, v \in XVals : SetX(k, v)

SpecOperator == Init /\ [][NextOperator]_vars

---------------------------------------------------------------------------
(* Vocabulary of the properties. *)

Initialized == self.status = 0 /\ HasAttr(self, "model")

(* The last call on the instance was the evaluation op. *)
LastCall(op) == result.obj = "StandardLLH" /\ result.op = op
LastCallEval == result.obj = "StandardLLH" /\ result.op \in EvalOps

Raised(out, e) == out.kind = "raise" /\ out.val = e

(* The model accepts f and some component of g_est or f is negative. *)
Infeasible(model, f) ==
    LET ev == Model_evaluate(model, f)
    IN  ev.kind = "return" /\ (AnyNegative(ev.val[1]) \/ AnyNegative(ev.val[2]))

(* The model accepts f and no component of g_est or f is negative. *)
Feasible(model, f) ==
    LET ev == Model_evaluate(model, f)
    IN  ev.kind = "return" /\ ~AnyNegative(ev.val[1]) /\ ~AnyNegative(ev.val[2])

(* The model accepts f and every component of g_est and f is positive. *)
AllPositive(model, f) ==
    LET ev == Model_evaluate(model, f)
    IN  /\ ev.kind = "return"
        /\ \A i \in 1..Len(ev.val[1]) : ev.val[1][i] > 0
        /\ \A k \in 1..Len(ev.val[2]) : ev.val[2][k] > 0

(* The negation of what the evaluation op returns. *)
Negated(op, v) ==
    IF op = "evaluate_llh" THEN SNeg(v)
    ELSE IF op = "evaluate_gradient" THEN [k \in 1..Len(v) |-> SNeg(v[k])]
    ELSE [k \in 1..Len(v) |-> [l \in 1..Len(v[k]) |-> SNeg(v[k][l])]]

(* The instance initialize leaves behind when given the stored arguments   *)
(* with neg_llh flipped.                                                   *)
FlippedSelf ==
    StandardLLH_initialize(self, self.vec_g, self.model, self.tau, self.C,
                           self.N_prior, ~self.neg_llh).self

(* The sum of the squared second differences of v at its interior points. *)
InteriorSecondDifferences(v) ==
    Sum([i \in 1..(Len(v) - 2) |->
            (v[i] - 2 * v[i + 1] + v[i + 2]) * (v[i] - 2 * v[i + 1] + v[i + 2])])

(* The squared first differences of v at its two boundaries. *)
BoundaryFirstDifferences(v) ==
    (v[2] - v[1]) * (v[2] - v[1])
    + (v[Len(v)] - v[Len(v) - 1]) * (v[Len(v)] - v[Len(v) - 1])

---------------------------------------------------------------------------
(* C1: on an instance on which initialize has never been called            *)
(* (status = -1), evaluate_llh, evaluate_gradient and evaluate_hesse_matrix *)
(* each fail with the "uninitialized" RuntimeError.  The code raises       *)
(* NotImplementedError from the two derivative calls: the capability flags *)
(* are tested before the status.                                           *)
C1_UninitializedRaisesRuntimeError ==
    (self.status = -1 /\ LastCallEval) => Raised(result.out, "RuntimeError")

(* C2: with the other initialization arguments equal, the results under    *)
(* neg_llh = False are the negation of the results under neg_llh = True,   *)
(* for value, gradient and Hessian at every f with positive f and g_est.   *)
(* The code returns nothing there: every evaluation reads self.g, which    *)
(* initialize never sets.                                                  *)
C2_FlippingNegLLHNegates ==
    (/\ Initialized
     /\ LastCallEval
     /\ result.op = "evaluate_llh" \/ IsLinearModel(self.model)
     /\ AllPositive(self.model, result.f))
    => /\ result.out.kind = "return"
       /\ StandardLLH_call(FlippedSelf, result.op, result.f).out.kind = "return"
       /\ StandardLLH_call(FlippedSelf, result.op, result.f).out.val
              = Negated(result.op, result.out.val)

(* C3: for a linear model with m > n >= 3, C = create_C_thikonov(n) and    *)
(* the default flags, the vectorised objective and the loop reference      *)
(* built from the same g, model and tau return the same value, gradient    *)
(* and Hessian at every f with positive f and g_est.                       *)
C3_VectorizedMatchesForLoops ==
    (/\ Initialized
     /\ ref # NoObject
     /\ LastCallEval
     /\ ref_result.obj = "LLHThikonovForLoops" /\ ref_result.op = result.op
     /\ ref_result.f = result.f
     /\ IsLinearModel(self.model)
     /\ Rows(self.model.A) > Cols(self.model.A) /\ Cols(self.model.A) >= 3
     /\ ref.linear_model = self.model /\ ref.g = self.vec_g /\ ref.tau = self.tau
     /\ self.C = create_C_thikonov(Cols(self.model.A))
     /\ self.neg_llh /\ ~self.N_prior
     /\ AllPositive(self.model, result.f))
    => /\ result.out.kind = "return"
       /\ ref_result.out.kind = "return"
       /\ result.out.val = ref_result.out.val

(* C4: on an initialized instance and a feasible f, evaluate_llh returns   *)
(* (SUM(g_est - vec_g*log(g_est)) + 0.5*tau*f_reg'.C.f_reg                 *)
(*  [+ sum(f) - N*log(sum(f))]) * factor, with the observed counts stored  *)
(* at initialization.                                                      *)
C4_EvaluateLLHReturnsObjective ==
    (/\ Initialized
     /\ LastCall("evaluate_llh")
     /\ Feasible(self.model, result.f))
    => /\ result.out.kind = "return"
       /\ result.out.val =
            LET ev == Model_evaluate(self.model, result.f)
            IN  StandardLLH_llh_value([g |-> self.vec_g] @@ self,
                                      ev.val[1], ev.val[2], ev.val[3])

(* C5: after initialize the two capability flags are both true exactly     *)
(* when the model of that call is a LinearModel, and on an instance        *)
(* initialized with a non-linear model the two derivative calls fail with  *)
(* NotImplementedError, after any sequence of initialize calls.            *)
C5_FlagsFollowTheLastModel ==
    /\ (LastCall("initialize") /\ result.out.kind = "return")
         => /\ self.gradient_defined = IsLinearModel(self.model)
            /\ self.hesse_matrix_defined = IsLinearModel(self.model)
    /\ (/\ Initialized
        /\ ~IsLinearModel(self.model)
        /\ LastCall("evaluate_gradient") \/ LastCall("evaluate_hesse_matrix"))
         => Raised(result.out, "NotImplementedError")

(* C6: on an initialized instance, when the model's evaluate(f) yields a   *)
(* negative component in g_est or in f, evaluate_llh returns +inf if       *)
(* neg_llh and -inf otherwise, whatever tau, C, N_prior and the counts.    *)
C6_InfeasibleReturnsSignedInfinity ==
    (/\ Initialized
     /\ LastCall("evaluate_llh")
     /\ Infeasible(self.model, result.f))
    => /\ result.out.kind = "return"
       /\ result.out.val.kind = IF self.neg_llh THEN "inf" ELSE "-inf"

C6_Witness ==
    /\ Initialized
    /\ LastCall("evaluate_llh")
    /\ Infeasible(self.model, result.f)
    /\ ~AnyNegative(result.f)
    /\ ~self.neg_llh /\ self.N_prior /\ self.tau = 1
    /\ result.out.kind = "return"
    /\ result.out.val = NegInf

(* C7: for every n >= 3, C = create_C_thikonov(n) is symmetric and         *)
(* x'.C.x >= 0 for every integer vector x of length n.                     *)
C7_SymmetricPositiveSemiDefinite ==
    /\ \A i \in 1..n_dims : \A j \in 1..n_dims : C_op[i][j] = C_op[j][i]
    /\ Quad(C_op, x) >= 0

C7_Witness ==
    /\ n_dims > 3
    /\ Rows(C_op) = n_dims
    /\ x # ZeroVector(n_dims)
    /\ C_op[1][2] # 0 /\ C_op[2][1] = C_op[1][2]
    /\ Quad(C_op, x) > 0

(* C8, as claimed: for every n >= 3 and every f, f'.C.f is the sum of the  *)
(* squared second differences of f at the interior points, and nothing     *)
(* else.                                                                   *)
C8_PenaltyIsInteriorSecondDifferences ==
    Quad(C_op, x) = InteriorSecondDifferences(x)

(* C8, amended: f'.C.f is the sum of the squared second differences at the *)
(* interior points plus the squared first differences (f[1]-f[0])^2 and    *)
(* (f[n-1]-f[n-2])^2 that the two boundary rows contribute.                *)
C8_PenaltyWithBoundaryTerms ==
    Quad(C_op, x) = InteriorSecondDifferences(x) + BoundaryFirstDifferences(x)

C8_Witness ==
    /\ n_dims > 3
    /\ InteriorSecondDifferences(x) > 0
    /\ BoundaryFirstDifferences(x) > 0
    /\ Quad(C_op, x) = InteriorSecondDifferences(x) + BoundaryFirstDifferences(x)

(* C9: no call of evaluate_llh, evaluate_gradient or evaluate_hesse_matrix *)
(* changes a stored field of the instance, so the result of a call is what *)
(* the same call yields on the instance as it stands afterwards.           *)
C9_EvaluationsLeaveTheInstanceUnchanged ==
    [][(result'.obj = "StandardLLH" /\ result'.op \in EvalOps)
         => /\ self' = self
            /\ result'.out = StandardLLH_call(self', result'.op, result'.f).out]_vars

C9_Witness ==
    /\ Initialized
    /\ LastCall("evaluate_llh")
    /\ result.out.kind = "return"
    /\ self.gradient_defined /\ self.hesse_matrix_defined

(* C10: when initialize fails with ValueError because the model is not a   *)
(* Model, the instance is left as it was: one that was never initialized   *)
(* stays at status = -1 and its evaluate_llh still fails with the          *)
(* "uninitialized" RuntimeError.                                           *)
C10_FailedInitializeLeavesUninitialized ==
    ~HasAttr(self, "model")
    => /\ self.status = -1
       /\ LastCall("evaluate_llh") => Raised(result.out, "RuntimeError")

=============================================================================
